---- MODULE Spec2Model ----
(***************************************************************************)
(* A model of the SkyVision object-detection service (src/utils/app.py):   *)
(* the module-level model load, POST /predict and GET /health.  Strings    *)
(* are sequences of one-character strings, so that splitting, lower-casing *)
(* and formatting of file names are computed, not assumed.                 *)
(***************************************************************************)
EXTENDS Integers, Sequences, FiniteSets, TLC

VARIABLES model, loadedAtStartup, now, uploads, results, req, health, allocated, overwrites

vars == <<model, loadedAtStartup, now, uploads, results, req, health, allocated, overwrites>>

-----------------------------------------------------------------------------
(* Bounds of the model.                                                    *)

\* seconds the clock may advance past its starting value
MaxTicks == 1
\* distinct values uuid4()[:8] is drawn from
NumTokens == 2
\* boxes one model.predict call returns at most
MaxBoxes == 2

-----------------------------------------------------------------------------
(* Strings.                                                                *)

UpperChars == <<"A","B","C","D","E","F","G","H","I","J","K","L","M",
                "N","O","P","Q","R","S","T","U","V","W","X","Y","Z">>
LowerChars == <<"a","b","c","d","e","f","g","h","i","j","k","l","m",
                "n","o","p","q","r","s","t","u","v","w","x","y","z">>
DigitChars == <<"0","1","2","3","4","5","6","7","8","9">>
HexChars == <<"0","1","2","3","4","5","6","7","8","9","a","b","c","d","e","f">>

Range(s) == {s[i] : i \in DOMAIN s}

\* str.lower() on one character
LowerChar(c) ==
    IF \E i \in DOMAIN UpperChars : UpperChars[i] = c
    THEN LowerChars[CHOOSE i \in DOMAIN UpperChars : UpperChars[i] = c]
    ELSE c

\* str.lower()
Lower(s) == [i \in DOMAIN s |-> LowerChar(s[i])]

\* '.' in s
HasDot(s) == \E i \in DOMAIN s : s[i] = "."

\* s.rsplit('.', 1): scanning from the right for the first separator; the
\* whole string, alone, when there is none.
RECURSIVE RSplitAt(_, _)
RSplitAt(s, i) ==
    IF i = 0 THEN <<s>>
    ELSE IF s[i] = "." THEN <<SubSeq(s, 1, i - 1), SubSeq(s, i + 1, Len(s))>>
    ELSE RSplitAt(s, i - 1)

RSplit1(s) == RSplitAt(s, Len(s))

\* list[-1] and list[0]
LastOf(l) == l[Len(l)]
FirstOf(l) == l[1]

\* str(n) for n >= 0
RECURSIVE IntToStr(_)
IntToStr(n) ==
    IF n < 10 THEN <<DigitChars[n + 1]>>
    ELSE IntToStr(n \div 10) \o <<DigitChars[(n % 10) + 1]>>

\* werkzeug.utils.secure_filename on ASCII input, on a POSIX host:
\* os.sep becomes a blank, blank-separated words are joined by "_", every
\* character outside [A-Za-z0-9_.-] is dropped, and leading and trailing
\* "." and "_" are stripped.
SafeChars == Range(UpperChars) \cup Range(LowerChars) \cup Range(DigitChars)
                \cup {"_", ".", "-"}

IsBlank(c) == c \in {" ", "/"}

RECURSIVE JoinWords(_, _, _)
JoinWords(s, i, acc) ==
    IF i > Len(s) THEN acc
    ELSE IF IsBlank(s[i]) THEN JoinWords(s, i + 1, acc)
    ELSE IF i > 1 /\ IsBlank(s[i - 1]) /\ acc # <<>>
         THEN JoinWords(s, i + 1, acc \o <<"_", s[i]>>)
         ELSE JoinWords(s, i + 1, Append(acc, s[i]))

KeepSafe(s) == SelectSeq(s, LAMBDA c : c \in SafeChars)

RECURSIVE StripDotUnderscore(_)
StripDotUnderscore(s) ==
    IF s = <<>> THEN s
    ELSE IF s[1] \in {".", "_"} THEN StripDotUnderscore(Tail(s))
    ELSE IF s[Len(s)] \in {".", "_"} THEN StripDotUnderscore(SubSeq(s, 1, Len(s) - 1))
    ELSE s

secure_filename(s) == StripDotUnderscore(KeepSafe(JoinWords(s, 1, <<>>)))

-----------------------------------------------------------------------------
(* The pure steps of predict().                                            *)

None == "None"
Loaded == "YOLO"

\* model = YOLO('models/best.pt'), or None when loading raised
ModelHandles == {Loaded, None}

\* the startup load succeeded
ModelLoaded(m) == m # None

\* the check left out
ModelMissingNever(m) == FALSE

\* if model is None
ModelMissing(m) == m = None

\* model.names, the id-to-name table of the loaded weights
class_names == (0 :> <<"p","l","a","n","e">>) @@ (1 :> <<"b","i","r","d">>)

\* class ids a box may carry; one of them is missing from class_names
ClassIds == {0, 1, 2}

\* the allow-list with one more entry
allowed_extensions_lenient ==
    {<<"p","n","g">>, <<"j","p","g">>, <<"j","p","e","g">>, <<"g","i","f">>, <<"b","m","p">>, <<"t","i","f","f">>, <<"w","e","b","p">>, <<"t","x","t">>}

allowed_extensions ==
    {<<"p","n","g">>, <<"j","p","g">>, <<"j","p","e","g">>, <<"g","i","f">>, <<"b","m","p">>, <<"t","i","f","f">>, <<"w","e","b","p">>}

\* the extension without .lower()
FileExtensionKeepCase(filename) ==
    IF HasDot(filename) THEN LastOf(RSplit1(filename)) ELSE <<>>

\* file.filename.rsplit('.', 1)[-1].lower() if '.' in file.filename else ''
FileExtension(filename) ==
    IF HasDot(filename) THEN Lower(LastOf(RSplit1(filename))) ELSE <<>>

\* truthiness taken from the already consumed stream
FileTruthyByStream(filename) == FALSE

\* bool(file): FileStorage.__bool__ is bool(self.filename)
FileTruthy(filename) == filename # <<>>

\* secure_filename(file.filename.rsplit('.', 1)[0])
BaseName(filename) == secure_filename(FirstOf(RSplit1(filename)))

\* file.filename.rsplit('.', 1)[-1].lower()
Extension(filename) == Lower(LastOf(RSplit1(filename)))

\* str(int(time.time()))
Timestamp(t) == IntToStr(t)

\* the length of str(uuid.uuid4())[:8]
TokenLen == 8

\* str(uuid.uuid4())[:8]: eight hexadecimal digits (the first dash of a
\* UUID is its ninth character); the model varies the last digit.
Tokens ==
    {[i \in 1..TokenLen |-> IF i = TokenLen THEN HexChars[k] ELSE "0"] :
        k \in 1..NumTokens}

\* the name without its random token
UniqueFilenameNoToken(base_name, timestamp, unique_id, extension) ==
    base_name \o <<"_">> \o timestamp \o <<".">> \o extension

\* f"{base_name}_{timestamp}_{unique_id}.{extension}"
UniqueFilename(base_name, timestamp, unique_id, extension) ==
    base_name \o <<"_">> \o timestamp \o <<"_">> \o unique_id \o <<".">> \o extension

\* the result name with token and timestamp exchanged
ResultFilenameSwapped(base_name, timestamp, unique_id, extension) ==
    <<"r","e","s","u","l","t","_">> \o base_name \o <<"_">> \o unique_id \o <<"_">> \o timestamp
        \o <<".">> \o extension

\* f"result_{base_name}_{timestamp}_{unique_id}.{extension}"
ResultFilename(base_name, timestamp, unique_id, extension) ==
    <<"r","e","s","u","l","t","_">> \o base_name \o <<"_">> \o timestamp \o <<"_">> \o unique_id
        \o <<".">> \o extension

\* url_for('static', filename=f'{folder}/{name}'); the stored names hold
\* only characters that URL quoting leaves alone.
StaticUrl(folder, name) == <<"/","s","t","a","t","i","c","/">> \o folder \o <<"/">> \o name

UPLOADS == <<"u","p","l","o","a","d","s">>
RESULTS == <<"r","e","s","u","l","t","s">>

\* class_names.get(class_id, f"Class_{class_id}")
ClassLabel(class_id) ==
    IF class_id \in DOMAIN class_names THEN class_names[class_id]
    ELSE <<"C","l","a","s","s","_">> \o IntToStr(class_id)

EmptyStats == [l \in {} |-> 0]

\* detection_stats.get(class_name, 0)
StatsGet(stats, label) == IF label \in DOMAIN stats THEN stats[label] ELSE 0

\* detection_stats[class_name] = count
StatsPut(stats, label, count) ==
    [l \in DOMAIN stats \cup {label} |-> IF l = label THEN count ELSE stats[l]]

\* the loop over the boxes, lines 107-110
RECURSIVE CountFrom(_, _, _)
CountFrom(boxes, i, stats) ==
    IF i > Len(boxes) THEN stats
    ELSE CountFrom(boxes, i + 1,
            StatsPut(stats, ClassLabel(boxes[i]),
                     StatsGet(stats, ClassLabel(boxes[i])) + 1))

\* the statistics with each seen label counted once
DetectionStatsFlags(boxes) ==
    [l \in {ClassLabel(boxes[i]) : i \in DOMAIN boxes} |-> 1]

\* detection_stats, lines 104-110
DetectionStats(boxes) ==
    IF Len(boxes) > 0 THEN CountFrom(boxes, 1, EmptyStats) ELSE EmptyStats

\* sum(detection_stats.values())
RECURSIVE SumValues(_)
SumValues(stats) ==
    IF DOMAIN stats = {} THEN 0
    ELSE LET l == CHOOSE x \in DOMAIN stats : TRUE
         IN stats[l] + SumValues([x \in DOMAIN stats \ {l} |-> stats[x]])

\* sum(detection_stats.values()) if detection_stats else 0
TotalDetections(stats) == IF DOMAIN stats # {} THEN SumValues(stats) ELSE 0

\* the body with a fixed status
HealthBodyAlwaysHealthy(m) ==
    [code |-> 200, status |-> "healthy", model_loaded |-> m # None]

\* the body of health_check()
HealthBody(m) ==
    [code |-> 200,
     status |-> IF m # None THEN "healthy" ELSE "degraded",
     model_loaded |-> m # None]

-----------------------------------------------------------------------------
(* Inputs.                                                                 *)

Workers == {1, 2}

\* values of int(time.time()) at startup: before a change of length, and a
\* present-day one
StartTimes == {9, 1699999999}

Stems ==
    {<<"c","a","t">>, <<"m","y"," ","c","a","t">>, <<".",".","/","x">>, <<"a","_","1">>, <<>>}

Suffixes ==
    {<<>>,
     <<".">>,
     <<".","p","n","g">>,
     <<".","j","p","g">>,
     <<".","J","P","G">>,
     <<".","j","p","e","g">>,
     <<".","g","i","f">>,
     <<".","b","m","p">>,
     <<".","t","i","f","f">>,
     <<".","w","e","b","p">>,
     <<".","t","x","t">>,
     <<".","p","n","g",".","t","x","t">>,
     <<".","t","x","t",".","p","n","g">>,
     <<"p","n","g">>,
     <<".","p","n","g","x">>}

\* the filenames of the uploaded part
FileNames == {a \o b : a \in Stems, b \in Suffixes}

\* the filenames the concurrent specification submits
SharedFileNames == {<<"c","a","t",".","p","n","g">>, <<"m","y"," ","c","a","t",".","J","P","G">>, <<"n","o","t","e","s",".","t","x","t">>}

RECURSIVE SeqsUpTo(_, _)
SeqsUpTo(S, n) ==
    IF n = 0 THEN {<<>>}
    ELSE LET shorter == SeqsUpTo(S, n - 1)
         IN shorter \cup {Append(q, x) : q \in {r \in shorter : Len(r) = n - 1}, x \in S}

\* results[0].boxes, as the class id of each box
BoxLists == SeqsUpTo(ClassIds, MaxBoxes)

\* the box lists the concurrent specification returns
SharedBoxLists == {<<0, 2>>}

-----------------------------------------------------------------------------
(* State.                                                                  *)

NoResponse ==
    [code |-> 0, status |-> "", error |-> "", filename |-> <<>>, timestamp |-> <<>>,
     uploaded_image_url |-> <<>>, result_image_url |-> <<>>,
     detection_stats |-> EmptyStats, total_detections |-> 0]

NoHealth == [code |-> 0, status |-> "", model_loaded |-> FALSE]

\* a worker that has not received its request
IdleReq ==
    [pc |-> "idle", id |-> 0, hasImage |-> FALSE, filename |-> <<>>,
     unique_id |-> <<>>, timestamp |-> <<>>, base_name |-> <<>>, extension |-> <<>>,
     unique_filename |-> <<>>, has_path |-> FALSE, result_filename |-> <<>>,
     boxes |-> <<>>, detection_stats |-> EmptyStats, removeFailed |-> FALSE,
     trace |-> <<>>, response |-> NoResponse]

\* jsonify({"error": ..., "status": "error"}), code
ErrorResponse(code, error) ==
    [NoResponse EXCEPT !.code = code, !.status = "error", !.error = error]

MsgModel == "Deep learning model not loaded. Please check server logs for details."
MsgNoPart == "No image file part in the request."
MsgNoFile == "No selected file."
\* the order of the listed formats is the set's iteration order
MsgBadType == "Invalid file type. Supported formats: png, jpg, jpeg, gif, bmp, tiff, webp"
MsgProcessing == "An error occurred during object detection: "
MsgFallThrough == "Something went wrong during file upload or processing."

\* the state after the module-level code has run, lines 10-28
InitWith(workers, starts) ==
    /\ model \in ModelHandles
    /\ loadedAtStartup = ModelLoaded(model)
    /\ now \in starts
    /\ uploads = [n \in {} |-> 0]
    /\ results = [n \in {} |-> 0]
    /\ req = [w \in workers |-> IdleReq]
    /\ health = NoHealth
    /\ allocated = [i \in {} |-> 0]
    /\ overwrites = {}

Init == InitWith({1}, StartTimes)

InitConc == InitWith(Workers, {9})

-----------------------------------------------------------------------------
(* POST /predict, one action per step of the handler.                      *)

Log(r, event) == Append(r.trace, event)

\* a file written at `name` by request `id`, replacing what was there
WriteFile(dir, name, id) ==
    [n \in DOMAIN dir \cup {name} |-> IF n = name THEN id ELSE dir[n]]

\* os.remove(name)
RemoveFile(dir, name) == [n \in DOMAIN dir \ {name} |-> dir[n]]

\* the requests whose file a write at `name` by `id` replaces
Replaced(dir, name, id) ==
    IF name \in DOMAIN dir /\ dir[name] # id THEN {<<id, dir[name]>>} ELSE {}

\* a request reaches the handler: request.files either lacks 'image' or
\* holds a part with some filename
Receive(w, names) ==
    /\ req[w].pc = "idle"
    /\ \E hasImage \in BOOLEAN :
         \E fn \in (IF hasImage THEN names ELSE {<<>>}) :
            req' = [req EXCEPT ![w] =
                      [IdleReq EXCEPT !.pc = "received", !.id = w,
                                      !.hasImage = hasImage, !.filename = fn,
                                      !.trace = <<"received">>]]
    /\ UNCHANGED <<model, loadedAtStartup, now, uploads, results, health, allocated, overwrites>>

\* lines 43-48
CheckModel(w) ==
    /\ req[w].pc = "received"
    /\ LET r == [req[w] EXCEPT !.trace = Log(req[w], "model_check")]
       IN req' = [req EXCEPT ![w] =
                    IF ModelMissing(model)
                    THEN [r EXCEPT !.pc = "responded",
                                   !.response = ErrorResponse(500, MsgModel)]
                    ELSE [r EXCEPT !.pc = "checked"]]
    /\ UNCHANGED <<model, loadedAtStartup, now, uploads, results, health, allocated, overwrites>>

\* lines 50-76, and the fall-through of lines 145-148
Validate(w) ==
    /\ req[w].pc = "checked"
    /\ LET r == [req[w] EXCEPT !.trace = Log(req[w], "validate")]
           reject(code, msg) ==
               [r EXCEPT !.pc = "responded", !.response = ErrorResponse(code, msg)]
       IN req' = [req EXCEPT ![w] =
                    IF ~r.hasImage THEN reject(400, MsgNoPart)
                    ELSE IF r.filename = <<>> THEN reject(400, MsgNoFile)
                    ELSE IF FileExtension(r.filename) \notin allowed_extensions
                         THEN reject(400, MsgBadType)
                    ELSE IF FileTruthy(r.filename) THEN [r EXCEPT !.pc = "validated"]
                    ELSE reject(500, MsgFallThrough)]
    /\ UNCHANGED <<model, loadedAtStartup, now, uploads, results, health, allocated, overwrites>>

\* lines 78-85; a raise leaves uploaded_filepath unbound
Allocate(w, tokens) ==
    /\ req[w].pc = "validated"
    /\ \E raised \in BOOLEAN :
         \E unique_id \in (IF raised THEN {<<>>} ELSE tokens) :
            LET r == req[w]
                timestamp == Timestamp(now)
                base_name == BaseName(r.filename)
                extension == Extension(r.filename)
                unique_filename == UniqueFilename(base_name, timestamp, unique_id, extension)
            IN IF raised
               THEN /\ req' = [req EXCEPT ![w] = [r EXCEPT !.pc = "except"]]
                    /\ UNCHANGED allocated
               ELSE /\ req' = [req EXCEPT ![w] =
                                 [r EXCEPT !.pc = "named", !.unique_id = unique_id,
                                           !.timestamp = timestamp,
                                           !.base_name = base_name,
                                           !.extension = extension,
                                           !.unique_filename = unique_filename,
                                           !.has_path = TRUE,
                                           !.trace = Log(r, "allocate")]]
                    /\ allocated' = (r.id :> [filename |-> r.filename,
                                              timestamp |-> timestamp,
                                              unique_id |-> unique_id,
                                              unique_filename |-> unique_filename])
                                    @@ allocated
    /\ UNCHANGED <<model, loadedAtStartup, now, uploads, results, health, overwrites>>

\* line 88: file.save succeeds, or raises before creating the file, or
\* raises with part of it written
SaveUpload(w) ==
    /\ req[w].pc = "named"
    /\ \E outcome \in {"ok", "partial", "nofile"} :
         LET r == req[w]
             written == outcome # "nofile"
         IN /\ uploads' = IF written THEN WriteFile(uploads, r.unique_filename, r.id)
                          ELSE uploads
            /\ overwrites' = IF written
                             THEN overwrites \cup Replaced(uploads, r.unique_filename, r.id)
                             ELSE overwrites
            /\ req' = [req EXCEPT ![w] =
                         [r EXCEPT !.pc = IF outcome = "ok" THEN "saved" ELSE "except",
                                   !.trace = IF written THEN Log(r, "upload_written")
                                             ELSE r.trace]]
    /\ UNCHANGED <<model, loadedAtStartup, now, results, health, allocated>>

\* lines 90-114: model.predict reads the stored upload; it, or the
\* rendering after it, may raise
RunInference(w, boxLists) ==
    /\ req[w].pc = "saved"
    /\ LET r == req[w]
           readable == ModelLoaded(model) /\ r.unique_filename \in DOMAIN uploads
       IN \E outcome \in {"raise"} \cup (IF readable THEN {"ok"} ELSE {}) :
            \E boxes \in (IF outcome = "ok" THEN boxLists ELSE {<<>>}) :
               req' = [req EXCEPT ![w] =
                         IF outcome = "ok"
                         THEN [r EXCEPT !.pc = "inferred", !.boxes = boxes,
                                        !.detection_stats = DetectionStats(boxes),
                                        !.result_filename =
                                            ResultFilename(r.base_name, r.timestamp,
                                                           r.unique_id, r.extension),
                                        !.trace = Log(r, "predict")]
                         ELSE [r EXCEPT !.pc = "except", !.trace = Log(r, "predict")]]
    /\ UNCHANGED <<model, loadedAtStartup, now, uploads, results, health, allocated, overwrites>>

\* line 117: Image.save succeeds, or raises with or without a file left
SaveResult(w) ==
    /\ req[w].pc = "inferred"
    /\ \E outcome \in {"ok", "partial", "nofile"} :
         LET r == req[w]
             written == outcome # "nofile"
         IN /\ results' = IF written THEN WriteFile(results, r.result_filename, r.id)
                          ELSE results
            /\ overwrites' = IF written
                             THEN overwrites \cup Replaced(results, r.result_filename, r.id)
                             ELSE overwrites
            /\ req' = [req EXCEPT ![w] =
                         [r EXCEPT !.pc = IF outcome = "ok" THEN "persisted" ELSE "except",
                                   !.trace = IF written THEN Log(r, "result_written")
                                             ELSE r.trace]]
    /\ UNCHANGED <<model, loadedAtStartup, now, uploads, health, allocated>>

\* lines 119-129: os.path.getsize raises when the upload is gone
BuildResponse(w) ==
    /\ req[w].pc = "persisted"
    /\ LET r == req[w]
           sizable == r.unique_filename \in DOMAIN uploads
       IN \E outcome \in {"raise"} \cup (IF sizable THEN {"ok"} ELSE {}) :
            req' = [req EXCEPT ![w] =
                      IF outcome = "ok"
                      THEN [r EXCEPT
                              !.pc = "responded",
                              !.trace = Log(r, "respond"),
                              !.response =
                                 [code |-> 200, status |-> "success", error |-> "",
                                  uploaded_image_url |-> StaticUrl(UPLOADS, r.unique_filename),
                                  result_image_url |-> StaticUrl(RESULTS, r.result_filename),
                                  detection_stats |-> r.detection_stats,
                                  total_detections |-> TotalDetections(r.detection_stats),
                                  filename |-> r.unique_filename,
                                  timestamp |-> r.timestamp]]
                      ELSE [r EXCEPT !.pc = "except"]]
    /\ UNCHANGED <<model, loadedAtStartup, now, uploads, results, health, allocated, overwrites>>

\* the cleanup left out
CleanupNever(has_path, exists) == FALSE

\* 'uploaded_filepath' in locals() and os.path.exists(uploaded_filepath)
CleanupNeeded(has_path, exists) == has_path /\ exists

\* lines 131-143: os.remove may itself raise, which is swallowed
HandleException(w) ==
    /\ req[w].pc = "except"
    /\ LET r == req[w]
           needed == CleanupNeeded(r.has_path, r.unique_filename \in DOMAIN uploads)
       IN \E outcome \in (IF needed THEN {"removed", "remove_failed"} ELSE {"skipped"}) :
            /\ uploads' = IF outcome = "removed" THEN RemoveFile(uploads, r.unique_filename)
                          ELSE uploads
            /\ req' = [req EXCEPT ![w] =
                         [r EXCEPT !.pc = "responded",
                                   !.removeFailed = (outcome = "remove_failed"),
                                   !.trace = Log(r, "respond"),
                                   !.response = ErrorResponse(500, MsgProcessing)]]
    /\ UNCHANGED <<model, loadedAtStartup, now, results, health, allocated, overwrites>>

\* GET /health, lines 150-159
HealthCheck ==
    /\ health' = HealthBody(model)
    /\ UNCHANGED <<model, loadedAtStartup, now, uploads, results, req, allocated, overwrites>>

\* a second of wall-clock time passes
Tick ==
    /\ \E s \in StartTimes : now >= s /\ now - s < MaxTicks
    /\ now' = now + 1
    /\ UNCHANGED <<model, loadedAtStartup, uploads, results, req, health, allocated, overwrites>>

\* one request, over all filenames and box lists
Next ==
    \/ Tick
    \/ HealthCheck
    \/ \E w \in DOMAIN req : Receive(w, FileNames)
    \/ \E w \in DOMAIN req : CheckModel(w)
    \/ \E w \in DOMAIN req : Validate(w)
    \/ \E w \in DOMAIN req : Allocate(w, Tokens)
    \/ \E w \in DOMAIN req : SaveUpload(w)
    \/ \E w \in DOMAIN req : RunInference(w, BoxLists)
    \/ \E w \in DOMAIN req : SaveResult(w)
    \/ \E w \in DOMAIN req : BuildResponse(w)
    \/ \E w \in DOMAIN req : HandleException(w)

Spec == Init /\ [][Next]_vars

\* two workers, each serving one request, in any interleaving
NextConc ==
    \/ Tick
    \/ HealthCheck
    \/ \E w \in DOMAIN req : Receive(w, SharedFileNames)
    \/ \E w \in DOMAIN req : CheckModel(w)
    \/ \E w \in DOMAIN req : Validate(w)
    \/ \E w \in DOMAIN req : Allocate(w, Tokens)
    \/ \E w \in DOMAIN req : SaveUpload(w)
    \/ \E w \in DOMAIN req : RunInference(w, SharedBoxLists)
    \/ \E w \in DOMAIN req : SaveResult(w)
    \/ \E w \in DOMAIN req : BuildResponse(w)
    \/ \E w \in DOMAIN req : HandleException(w)

SpecConc == InitConc /\ [][NextConc]_vars

-----------------------------------------------------------------------------
(* The vocabulary of the properties, computed apart from the handler.      *)

Responded(w) == req[w].pc = "responded"

Count(trace, event) == Cardinality({i \in DOMAIN trace : trace[i] = event})

Has(trace, event) == \E i \in DOMAIN trace : trace[i] = event

\* the largest index of character c in s, 0 when there is none
LastIndex(s, c) ==
    LET at == {i \in DOMAIN s : s[i] = c}
    IN IF at = {} THEN 0 ELSE CHOOSE i \in at : \A j \in at : j <= i

AfterLast(s, c) == SubSeq(s, LastIndex(s, c) + 1, Len(s))

BeforeLast(s, c) == SubSeq(s, 1, LastIndex(s, c) - 1)

AllowList ==
    {<<"p","n","g">>, <<"j","p","g">>, <<"j","p","e","g">>, <<"g","i","f">>, <<"b","m","p">>, <<"t","i","f","f">>, <<"w","e","b","p">>}

\* a filename with a dot whose lower-cased part after the last dot is allowed
Acceptable(filename) ==
    /\ LastIndex(filename, ".") > 0
    /\ Lower(AfterLast(filename, ".")) \in AllowList

\* the field is absent, the filename empty, or the extension not allowed
Invalid(r) == ~r.hasImage \/ r.filename = <<>> \/ ~Acceptable(r.filename)

\* no model call and no file written on behalf of the request
Untouched(r) ==
    /\ ~Has(r.trace, "predict")
    /\ ~Has(r.trace, "upload_written")
    /\ ~Has(r.trace, "result_written")

\* the timestamp component of a stored name: the field before the token
TimestampIn(name) == AfterLast(BeforeLast(BeforeLast(name, "."), "_"), "_")

\* the request's own upload is still in the uploads directory
OwnUploadPresent(r) ==
    /\ r.unique_filename \in DOMAIN uploads
    /\ uploads[r.unique_filename] = r.id

\* the request failed inside the processing block
ProcessingFailed(r) ==
    /\ r.pc = "responded"
    /\ r.response.code = 500
    /\ r.response.error = MsgProcessing

\* the place of each step in the handler
Rank(event) ==
    CASE event = "received" -> 1
      [] event = "model_check" -> 2
      [] event = "validate" -> 3
      [] event = "allocate" -> 4
      [] event = "upload_written" -> 5
      [] event = "predict" -> 6
      [] event = "result_written" -> 7
      [] event = "respond" -> 8

\* the state of section 4.6 a request is in
StateOf(r) ==
    CASE r.pc \in {"received", "checked"} -> "RECEIVED"
      [] r.pc \in {"validated", "named", "saved"} -> "VALIDATED"
      [] r.pc \in {"inferred", "persisted"} -> "INFERRED"
      [] r.pc = "except" -> "FAILING"
      [] r.pc = "responded" /\ r.response.code = 200 -> "RESPONDED"
      [] r.pc = "responded" /\ r.response.code # 200 -> "FAILED"
      [] OTHER -> "NONE"

-----------------------------------------------------------------------------
(* C1 *)

\* C1, as stated: a request with a missing field, an empty filename or a
\* disallowed extension is answered 400, with no model call and no write.
C1_Original ==
    \A w \in DOMAIN req :
        (Responded(w) /\ Invalid(req[w])) =>
            (req[w].response.code = 400 /\ Untouched(req[w]))

\* C1, amended: such a request is answered 400 when the model handle is
\* present and 500 when it is absent (the handle is checked first); in both
\* cases, and at every step of its handling, the model is not called and
\* nothing is written to the uploads or results directory.
C1_InvalidRejected ==
    \A w \in DOMAIN req :
        (req[w].pc # "idle" /\ Invalid(req[w])) =>
            /\ Untouched(req[w])
            /\ DOMAIN uploads = {} /\ DOMAIN results = {}
            /\ req[w].pc \in {"received", "checked", "responded"}
            /\ Responded(w) =>
                 /\ req[w].response.status = "error"
                 /\ req[w].response.code = IF ModelLoaded(model) THEN 400 ELSE 500

C1_Witness ==
    \E w \in DOMAIN req :
        /\ Responded(w)
        /\ req[w].filename = <<"c","a","t",".","t","x","t">>
        /\ req[w].response.code = 400

-----------------------------------------------------------------------------
(* C2 *)

\* C2: with the model handle absent, every answered /predict request, with
\* or without a valid image, got 500 and the structured model error, no
\* request wrote a file or called the model, and every /health answer says
\* model_loaded = false; nothing restores the handle.
C2_ModelAbsent ==
    ~loadedAtStartup =>
        /\ model = None
        /\ DOMAIN uploads = {} /\ DOMAIN results = {}
        /\ \A w \in DOMAIN req :
             /\ Untouched(req[w])
             /\ req[w].pc \in {"idle", "received", "responded"}
             /\ Responded(w) =>
                  req[w].response = ErrorResponse(500, MsgModel)
        /\ health # NoHealth =>
             (health.code = 200 /\ health.model_loaded = FALSE)

C2_Witness ==
    /\ model = None
    /\ health.code = 200
    /\ \A w \in DOMAIN req : Responded(w) /\ req[w].response.code = 500
    /\ \E w \in DOMAIN req : ~Invalid(req[w])
    /\ \E w \in DOMAIN req : Invalid(req[w])

-----------------------------------------------------------------------------
(* C3 *)

\* C3: in a 200 response the file named by result_image_url is "result_"
\* followed by the response's filename, the timestamp field is the
\* timestamp component of filename, and the request wrote exactly one
\* upload file and exactly one result file, both on disk under those names.
C3_PairedNames ==
    \A w \in DOMAIN req :
        (Responded(w) /\ req[w].response.code = 200) =>
            LET resp == req[w].response
            IN /\ AfterLast(resp.result_image_url, "/") = <<"r","e","s","u","l","t","_">> \o resp.filename
               /\ AfterLast(resp.uploaded_image_url, "/") = resp.filename
               /\ resp.timestamp = TimestampIn(resp.filename)
               /\ AfterLast(resp.filename, ".") = Lower(AfterLast(req[w].filename, "."))
               /\ Count(req[w].trace, "upload_written") = 1
               /\ Count(req[w].trace, "result_written") = 1
               /\ resp.filename \in DOMAIN uploads
               /\ AfterLast(resp.result_image_url, "/") \in DOMAIN results

C3_Witness ==
    \E w \in DOMAIN req :
        /\ Responded(w)
        /\ req[w].response.code = 200
        /\ req[w].filename = <<"m","y"," ","c","a","t",".","J","P","G">>
        /\ req[w].response.timestamp = <<"1","0">>

-----------------------------------------------------------------------------
(* C5 *)

\* the boxes of a list that carry class id c
BoxesOf(boxes, c) == Cardinality({i \in DOMAIN boxes : boxes[i] = c})

RECURSIVE SumOver(_, _)
SumOver(f, S) ==
    IF S = {} THEN 0
    ELSE LET x == CHOOSE y \in S : TRUE IN f[x] + SumOver(f, S \ {x})

\* C5: in a 200 response every count in detection_stats is a positive
\* integer, total_detections is their sum and the number of boxes returned
\* (0 and an empty mapping for none), and the boxes of an id missing from
\* the name table are counted under "Class_" followed by the id.
C5_Stats ==
    \A w \in DOMAIN req :
        (Responded(w) /\ req[w].response.code = 200) =>
            LET stats == req[w].response.detection_stats
                total == req[w].response.total_detections
                boxes == req[w].boxes
            IN /\ \A l \in DOMAIN stats : stats[l] \in Nat /\ stats[l] > 0
               /\ total = SumOver(stats, DOMAIN stats)
               /\ total = Len(boxes)
               /\ (boxes = <<>>) => (DOMAIN stats = {} /\ total = 0)
               /\ \A c \in Range(boxes) :
                    LET label == IF c \in DOMAIN class_names THEN class_names[c]
                                 ELSE <<"C","l","a","s","s","_">> \o IntToStr(c)
                    IN label \in DOMAIN stats /\ stats[label] = BoxesOf(boxes, c)

C5_Witness ==
    \E w \in DOMAIN req :
        /\ Responded(w)
        /\ req[w].response.code = 200
        /\ req[w].boxes = <<2, 2>>
        /\ req[w].response.detection_stats[<<"C","l","a","s","s","_","2">>] = 2

-----------------------------------------------------------------------------
(* C7 *)

\* C7: every /health answer is a 200 whose status is "healthy" exactly when
\* model_loaded is true and "degraded" exactly when it is false, with
\* model_loaded the outcome of the startup load; the handle is the one set
\* at startup in every state, whatever requests were served.
C7_Health ==
    /\ ModelLoaded(model) = loadedAtStartup
    /\ health # NoHealth =>
         /\ health.code = 200
         /\ health.model_loaded = loadedAtStartup
         /\ health.status \in {"healthy", "degraded"}
         /\ health.status = "healthy" <=> health.model_loaded
         /\ health.status = "degraded" <=> ~health.model_loaded

C7_Witness ==
    /\ health.code = 200
    /\ health.status = "healthy"
    /\ \E w \in DOMAIN req : Responded(w) /\ req[w].response.code = 200
    /\ \E w \in DOMAIN req : ProcessingFailed(req[w])

-----------------------------------------------------------------------------
(* C8 *)

\* C8: once validation has run, a request without the field was answered
\* 400 "No image file part in the request.", one with an empty filename 400
\* "No selected file.", one whose filename is not acceptable 400 with the
\* message listing the formats, in that order of precedence; a filename is
\* let through exactly when it has a dot and its lower-cased part after the
\* last dot is in the allow-list.
C8_Validation ==
    \A w \in DOMAIN req :
        Has(req[w].trace, "validate") =>
            LET r == req[w]
                rejected == r.pc = "responded" /\ r.response.code = 400
            IN /\ ~r.hasImage => (rejected /\ r.response.error = MsgNoPart)
               /\ (r.hasImage /\ r.filename = <<>>) =>
                     (rejected /\ r.response.error = MsgNoFile)
               /\ (r.hasImage /\ r.filename # <<>> /\ ~Acceptable(r.filename)) =>
                     (rejected /\ r.response.error = MsgBadType)
               /\ (r.hasImage /\ r.filename # <<>> /\ Acceptable(r.filename)) =>
                     ~rejected
               /\ rejected => r.response.status = "error"

C8_Witness ==
    \E w \in DOMAIN req :
        /\ Responded(w)
        /\ req[w].filename = <<"c","a","t","p","n","g">>
        /\ req[w].response.error = MsgBadType

-----------------------------------------------------------------------------
(* C9 *)

\* C9: the steps of a request occur in the handler's order, each at most
\* once: model check, validation, write of the upload, model call, write of
\* the result, response; a request has a response exactly when it has
\* ended, with 200, 400 or 500; a 200 comes only after the model ran once
\* and the result image was written; the fall-through 500 is never sent.
C9_Lifecycle ==
    \A w \in DOMAIN req :
        LET r == req[w]
            t == r.trace
        IN /\ \A i, j \in DOMAIN t : i < j => Rank(t[i]) < Rank(t[j])
           /\ Has(t, "validate") => Has(t, "model_check")
           /\ Has(t, "upload_written") => (Has(t, "validate") /\ Has(t, "allocate"))
           /\ Has(t, "predict") => Has(t, "upload_written")
           /\ Has(t, "result_written") => Has(t, "predict")
           /\ Count(t, "predict") <= 1
           /\ (r.response # NoResponse) <=> (r.pc = "responded")
           /\ r.pc = "responded" => r.response.code \in {200, 400, 500}
           /\ r.response.code = 200 =>
                /\ Count(t, "predict") = 1
                /\ Has(t, "result_written")
                /\ r.result_filename \in DOMAIN results
           /\ r.response.error # MsgFallThrough
           /\ StateOf(r) = "RECEIVED" => ~Has(t, "validate")
           /\ StateOf(r) = "VALIDATED" => (Has(t, "validate") /\ ~Has(t, "predict"))
           /\ StateOf(r) = "INFERRED" => Has(t, "predict")
           /\ StateOf(r) = "RESPONDED" => Has(t, "respond")

C9_Witness ==
    \E w \in DOMAIN req :
        req[w].trace = <<"received", "model_check", "validate", "allocate",
                         "upload_written", "predict", "result_written", "respond">>

-----------------------------------------------------------------------------
(* C4 *)

\* the request got past validation and did not succeed
FailedAfterValidation(r) ==
    /\ r.pc = "responded"
    /\ Has(r.trace, "validate")
    /\ r.response.code \notin {200, 400}

\* C4, as stated: a validated request in which some step raised is answered
\* 500 with the structured error, and the upload it had written is no
\* longer in the uploads directory.
C4_Original ==
    \A w \in DOMAIN req :
        /\ req[w].pc = "except" => ENABLED HandleException(w)
        /\ FailedAfterValidation(req[w]) =>
             /\ req[w].response = ErrorResponse(500, MsgProcessing)
             /\ Has(req[w].trace, "upload_written") => ~OwnUploadPresent(req[w])

\* C4, amended: a validated request in which some step raised is answered
\* 500 with the structured error, and the upload it had written is no
\* longer in the uploads directory unless the deletion itself failed, which
\* the handler ignores.
C4_CleanupBestEffort ==
    \A w \in DOMAIN req :
        /\ req[w].pc = "except" => ENABLED HandleException(w)
        /\ FailedAfterValidation(req[w]) =>
             /\ req[w].response = ErrorResponse(500, MsgProcessing)
             /\ (Has(req[w].trace, "upload_written") /\ ~req[w].removeFailed)
                    => ~OwnUploadPresent(req[w])

C4_Witness ==
    \E w \in DOMAIN req :
        /\ ProcessingFailed(req[w])
        /\ Has(req[w].trace, "result_written")
        /\ ~req[w].removeFailed
        /\ req[w].unique_filename \notin DOMAIN uploads

-----------------------------------------------------------------------------
(* C6 *)

\* C6, as stated: two validated requests with the same original filename
\* are allocated different stored names, and no save replaces a file
\* another request stored.
C6_Original ==
    /\ \A a, b \in DOMAIN allocated :
         (a # b /\ allocated[a].filename = allocated[b].filename) =>
             allocated[a].unique_filename # allocated[b].unique_filename
    /\ overwrites = {}

\* C6, amended: two validated requests with the same original filename are
\* allocated different stored names unless both drew the same timestamp and
\* the same token, and a save replaces a file another request stored only
\* when the two drew the same timestamp and token.
C6_DistinctUnlessSameDraw ==
    /\ \A a, b \in DOMAIN allocated :
         (a # b /\ allocated[a].filename = allocated[b].filename) =>
             (allocated[a].unique_filename = allocated[b].unique_filename
                <=> (/\ allocated[a].timestamp = allocated[b].timestamp
                     /\ allocated[a].unique_id = allocated[b].unique_id))
    /\ \A o \in overwrites :
         /\ allocated[o[1]].timestamp = allocated[o[2]].timestamp
         /\ allocated[o[1]].unique_id = allocated[o[2]].unique_id

C6_Witness ==
    \E a, b \in DOMAIN allocated :
        /\ a # b
        /\ allocated[a].filename = allocated[b].filename
        /\ allocated[a].timestamp = allocated[b].timestamp
        /\ allocated[a].unique_id # allocated[b].unique_id
        /\ allocated[a].unique_filename \in DOMAIN uploads
        /\ allocated[b].unique_filename \in DOMAIN uploads

-----------------------------------------------------------------------------
(* C10 *)

\* C10: whenever no request is in flight, results/result_X exists if and
\* only if uploads/X exists; stated for the runs in which no deletion of an
\* upload failed, so that what breaks it is not the best-effort cleanup.
C10_Paired ==
    (/\ \A w \in DOMAIN req : req[w].pc \in {"idle", "responded"}
     /\ \A w \in DOMAIN req : ~req[w].removeFailed) =>
        {<<"r","e","s","u","l","t","_">> \o x : x \in DOMAIN uploads} = DOMAIN results

====
